---- MODULE Spec2Model ----
(***************************************************************************)
(* Wordle-Helper (src/src/main.rs): the constraint record `Word`, its      *)
(* predicate Word::filter, the ranking sort_possible_by_entropy and the    *)
(* event handlers of the egui window (known-letter fields, wrong-position  *)
(* fields, wrong-letters field, Reset, Open wordlist file).                *)
(*                                                                         *)
(* A Rust String is a sequence of one-character strings; a word list is a  *)
(* sequence of such sequences.  A panic (index out of bounds in            *)
(* Word::filter) is an outcome of its own, never a value.                  *)
(***************************************************************************)
EXTENDS Naturals, Integers, Sequences, FiniteSets, TLC

VARIABLES word, words, possible, crashed, last,
          call, arg_word, arg_w, arg_words, ret, ret2

vars == <<word, words, possible, crashed, last,
          call, arg_word, arg_w, arg_words, ret, ret2>>

uiVars == <<word, words, possible, crashed, last>>
fnVars == <<call, arg_word, arg_w, arg_words, ret, ret2>>

----------------------------------------------------------------------------
(* Bounds and program constants                                            *)

\* struct Word: chars: [String; 5], wrong_pos: [String; 5]
Slots == 5

\* letters typed into the constraint fields, in total over all fields
MaxLetters == 2
\* longest word (line of the word list) handed to Word::filter on its own
MaxWordLen == 6
\* longest word list handed to the filter_map pipeline or to the ranking
MaxList == 3

\* characters of the model, with their Unicode scalar values (char's Ord)
CharCode == [c \in {"A", "a", "b", "c"} |->
               CASE c = "A" -> 65 [] c = "a" -> 97 [] c = "b" -> 98 [] c = "c" -> 99]
Chars == DOMAIN CharCode

\* the characters typed into constraint fields and making up the lines
\* handed to Word::filter: two characters that differ in case only
FieldChars == {"a", "A"}

----------------------------------------------------------------------------
(* Strings                                                                 *)

Range(s) == {s[i] : i \in DOMAIN s}

\* all strings over cs of length 0..n
RECURSIVE StringsUpTo(_, _)
StringsUpTo(cs, n) ==
    IF n = 0 THEN {<<>>}
    ELSE LET shorter == StringsUpTo(cs, n - 1)
         IN  shorter \cup {Append(s, c) : s \in {t \in shorter : Len(t) = n - 1}, c \in cs}

\* str::contains(ch: char)
Contains(w, ch) == \E i \in 1..Len(w) : w[i] = ch

\* <[T]>::reverse
Reverse(s) == [i \in 1..Len(s) |-> s[Len(s) + 1 - i]]

----------------------------------------------------------------------------
(* struct Word and Word::default()                                         *)

WordDefault ==
    [chars     |-> [i \in 1..Slots |-> <<>>],
     wrong     |-> <<>>,
     wrong_pos |-> [i \in 1..Slots |-> <<>>]]

RECURSIVE SumLen(_, _)
SumLen(f, n) == IF n = 0 THEN 0 ELSE Len(f[n]) + SumLen(f, n - 1)

\* number of characters held by the three fields of a Word
Letters(wd) == SumLen(wd.chars, Slots) + Len(wd.wrong) + SumLen(wd.wrong_pos, Slots)

----------------------------------------------------------------------------
(* Word::filter (lines 72-100).  Outcomes: "Some" (with the word), "None", *)
(* or "Panic" when w_chars[idx] indexes past the end of the word.          *)

\* lines 77-85: the known letters, slot by slot; `any` stops at the first
\* slot that differs, an index past the end of the word panics
RECURSIVE KnownScan(_, _, _)
KnownScan(chars, w, idx) ==
    IF idx > Slots THEN "pass"
    ELSE IF chars[idx] = <<>> THEN KnownScan(chars, w, idx + 1)
    ELSE IF idx > Len(w) THEN "panic"
    ELSE IF w[idx] # Head(chars[idx]) THEN "reject"
    ELSE KnownScan(chars, w, idx + 1)

\* lines 87-89: self.wrong.chars().any(|ch| w.contains(ch))
WrongScan(wrong, w) ==
    IF \E k \in 1..Len(wrong) : Contains(w, wrong[k]) THEN "reject" ELSE "pass"

\* the slot scan without the presence test `!w.contains(ch)`
RECURSIVE WrongPosSlotScan_NoPresence(_, _, _, _)
WrongPosSlotScan_NoPresence(cs, w, idx, k) ==
    IF k > Len(cs) THEN "pass"
    ELSE IF idx > Len(w) THEN "panic"
    ELSE IF w[idx] = cs[k] THEN "reject"
    ELSE WrongPosSlotScan_NoPresence(cs, w, idx, k + 1)

\* lines 92-94: the characters of one wrong_pos slot, in order
RECURSIVE WrongPosSlotScan(_, _, _, _)
WrongPosSlotScan(cs, w, idx, k) ==
    IF k > Len(cs) THEN "pass"
    ELSE IF idx > Len(w) THEN "panic"
    ELSE IF w[idx] = cs[k] \/ ~Contains(w, cs[k]) THEN "reject"
    ELSE WrongPosSlotScan(cs, w, idx, k + 1)

\* lines 91-97: the wrong_pos slots, in order
RECURSIVE WrongPosScan(_, _, _)
WrongPosScan(wrong_pos, w, idx) ==
    IF idx > Slots THEN "pass"
    ELSE LET r == WrongPosSlotScan(wrong_pos[idx], w, idx, 1)
         IN  IF r = "pass" THEN WrongPosScan(wrong_pos, w, idx + 1) ELSE r

Outcome(tag, val) == [tag |-> tag, val |-> val]

WordFilter(self, w) ==
    LET k == KnownScan(self.chars, w, 1)
    IN  IF k = "panic" THEN Outcome("Panic", <<>>)
        ELSE IF k = "reject" THEN Outcome("None", <<>>)
        ELSE IF WrongScan(self.wrong, w) = "reject" THEN Outcome("None", <<>>)
        ELSE LET p == WrongPosScan(self.wrong_pos, w, 1)
             IN  IF p = "panic" THEN Outcome("Panic", <<>>)
                 ELSE IF p = "reject" THEN Outcome("None", <<>>)
                 ELSE Outcome("Some", w)

----------------------------------------------------------------------------
(* Inputs of the function-level specifications                             *)

\* a chars slot holds at most one character (char_limit(1), line 23)
CharSlots == StringsUpTo(FieldChars, 1)

\* the constraint sets one more typed character away from wd
Grow(wd) ==
    {[wd EXCEPT !.chars[i] = <<c>>] : i \in {j \in 1..Slots : wd.chars[j] = <<>>}, c \in FieldChars}
    \cup {[wd EXCEPT !.wrong = Append(@, c)] : c \in FieldChars}
    \cup {[wd EXCEPT !.wrong_pos[i] = Append(@, c)] : i \in 1..Slots, c \in FieldChars}

\* every Word holding at most n characters
RECURSIVE WordsUpTo(_)
WordsUpTo(n) ==
    IF n = 0 THEN {WordDefault}
    ELSE LET fewer == WordsUpTo(n - 1)
         IN  fewer \cup UNION {Grow(wd) : wd \in fewer}

ConstraintSets == WordsUpTo(MaxLetters)

Lines == StringsUpTo(FieldChars, MaxWordLen)

UIStart ==
    /\ word = WordDefault
    /\ words = <<>>
    /\ possible = <<>>
    /\ crashed = FALSE
    /\ last = [op |-> "start", idx |-> 0, before |-> 0]

FnIdle ==
    /\ call = "idle"
    /\ arg_word = WordDefault
    /\ arg_w = <<>>
    /\ arg_words = <<>>
    /\ ret = Outcome("None", <<>>)
    /\ ret2 = <<>>

----------------------------------------------------------------------------
(* SpecMatches: Word::filter applied to one line under one constraint set  *)

InitMatches ==
    /\ UIStart
    /\ call = "idle"
    /\ arg_word \in ConstraintSets
    /\ arg_w \in Lines
    /\ arg_words = <<>>
    /\ ret = Outcome("None", <<>>)
    /\ ret2 = <<>>

CallWordFilter ==
    /\ call = "idle"
    /\ call' = "Word::filter"
    /\ ret' = WordFilter(arg_word, arg_w)
    /\ UNCHANGED <<arg_word, arg_w, arg_words, ret2>>
    /\ UNCHANGED uiVars

NextMatches == CallWordFilter

SpecMatches == InitMatches /\ [][NextMatches]_vars

----------------------------------------------------------------------------
(* The three checks of the specification, stated over a whole word         *)

KnownOk(c, w) ==
    \A i \in 1..Slots : c.chars[i] # <<>> => (i <= Len(w) /\ w[i] = c.chars[i][1])

ExcludedOk(c, w) == Range(c.wrong) \cap Range(w) = {}

MisplacedOk(c, w) ==
    \A i \in 1..Slots : \A ch \in Range(c.wrong_pos[i]) :
        /\ ~(i <= Len(w) /\ w[i] = ch)
        /\ ch \in Range(w)

ThreeChecks(c, w) == KnownOk(c, w) /\ ExcludedOk(c, w) /\ MisplacedOk(c, w)

\* C1: for a 5-character word, Word::filter returns Some(word) exactly when
\* the known-position, excluded and misplaced checks all hold, and None
\* otherwise; characters are compared as given (case-sensitively).
C1_MatchesIffThreeChecks ==
    (call = "Word::filter" /\ Len(arg_w) = Slots) =>
        /\ ret.tag \in {"Some", "None"}
        /\ (ret.tag = "Some") <=> ThreeChecks(arg_word, arg_w)
        /\ (ret.tag = "Some") => ret.val = arg_w

\* a 5-character word accepted under a known letter and a misplaced letter
C1_Witness ==
    /\ call = "Word::filter"
    /\ Len(arg_w) = Slots
    /\ ret.tag = "Some"
    /\ \E i \in 1..Slots : arg_word.chars[i] # <<>>
    /\ \E i \in 1..Slots : arg_word.wrong_pos[i] # <<>>

\* C4: a word whose length is not 5 is never a candidate and never aborts
\* the process: Word::filter returns None for it under every constraint set.
C4_WrongLengthIsNone ==
    (call = "Word::filter" /\ Len(arg_w) # Slots) => ret.tag = "None"

----------------------------------------------------------------------------
(* words.iter().filter_map(|w| word.filter(w)).collect()  (lines 28, 43,   *)
(* 57): the words Word::filter keeps, appended in iteration order; a panic *)
(* in Word::filter unwinds out of the whole pipeline.                      *)

\* the pipeline collecting at the front instead of the back
RECURSIVE FilterMapFrom_Prepend(_, _, _, _)
FilterMapFrom_Prepend(self, ws, k, acc) ==
    IF k > Len(ws) THEN Outcome("Vec", acc)
    ELSE LET r == WordFilter(self, ws[k])
         IN  IF r.tag = "Panic" THEN Outcome("Panic", <<>>)
             ELSE IF r.tag = "Some" THEN FilterMapFrom_Prepend(self, ws, k + 1, <<r.val>> \o acc)
             ELSE FilterMapFrom_Prepend(self, ws, k + 1, acc)

RECURSIVE FilterMapFrom(_, _, _, _)
FilterMapFrom(self, ws, k, acc) ==
    IF k > Len(ws) THEN Outcome("Vec", acc)
    ELSE LET r == WordFilter(self, ws[k])
         IN  IF r.tag = "Panic" THEN Outcome("Panic", <<>>)
             ELSE IF r.tag = "Some" THEN FilterMapFrom(self, ws, k + 1, Append(acc, r.val))
             ELSE FilterMapFrom(self, ws, k + 1, acc)

FilterMapCollect(self, ws) == FilterMapFrom(self, ws, 1, <<>>)

\* all lists over pool of length 0..n
ListsUpTo(pool, n) == StringsUpTo(pool, n)

\* lines of a word list: three 5-character words and a truncated line
FilterPool ==
    { <<"a", "a", "a", "a", "a">>,
      <<"A", "a", "a", "A", "a">>,
      <<"a", "A", "A", "a", "A">>,
      <<"A", "a">> }

(* SpecFilter: the filter_map pipeline over one word list                  *)

InitFilter ==
    /\ UIStart
    /\ call = "idle"
    /\ arg_word \in ConstraintSets
    /\ arg_w = <<>>
    /\ arg_words \in ListsUpTo(FilterPool, MaxList)
    /\ ret = Outcome("None", <<>>)
    /\ ret2 = <<>>

CallFilterMapCollect ==
    /\ call = "idle"
    /\ call' = "filter"
    /\ ret' = FilterMapCollect(arg_word, arg_words)
    /\ UNCHANGED <<arg_word, arg_w, arg_words, ret2>>
    /\ UNCHANGED uiVars

NextFilter == CallFilterMapCollect

SpecFilter == InitFilter /\ [][NextFilter]_vars

AllFiveChars(ws) == \A k \in 1..Len(ws) : Len(ws[k]) = Slots

Selected(c, ws) == LET keep(w) == ThreeChecks(c, w) IN SelectSeq(ws, keep)

\* C2: over a list of 5-character words the pipeline returns exactly the
\* words that pass the three checks, in their input order; with every
\* constraint field empty that is the input list itself, and with no
\* matching word (or an empty list) it is the empty sequence.
C2_FilterIsOrderedSubsequence ==
    (call = "filter" /\ AllFiveChars(arg_words)) =>
        /\ ret.tag = "Vec"
        /\ ret.val = Selected(arg_word, arg_words)
        /\ (arg_word = WordDefault => ret.val = arg_words)
        /\ ((\A k \in 1..Len(arg_words) : ~ThreeChecks(arg_word, arg_words[k]))
               => ret.val = <<>>)

\* a list of three 5-character words of which the first and the last are
\* kept, and differ, and the middle one is dropped
C2_Witness ==
    /\ call = "filter"
    /\ AllFiveChars(arg_words)
    /\ Len(arg_words) = 3
    /\ ret.tag = "Vec"
    /\ ret.val = <<arg_words[1], arg_words[3]>>
    /\ arg_words[1] # arg_words[3]

----------------------------------------------------------------------------
(* sort_possible_by_entropy (lines 103-111)                                *)

\* line 106, w.sort_unstable() on a Vec<char>: insertion into ascending
\* order of the scalar values (equal chars are indistinguishable)
RECURSIVE InsertChar(_, _)
InsertChar(s, c) ==
    IF s = <<>> THEN <<c>>
    ELSE IF CharCode[c] <= CharCode[Head(s)] THEN <<c>> \o s
    ELSE <<Head(s)>> \o InsertChar(Tail(s), c)

RECURSIVE SortChars(_)
SortChars(w) == IF w = <<>> THEN <<>> ELSE InsertChar(SortChars(Tail(w)), Head(w))

\* line 107, Vec::dedup: drops each element equal to its predecessor
RECURSIVE Dedup(_)
Dedup(s) ==
    IF Len(s) <= 1 THEN s
    ELSE IF s[1] = s[2] THEN Dedup(Tail(s))
    ELSE <<s[1]>> \o Dedup(Tail(s))

\* lines 104-109: the sort key of a word
EntropyKey(w) == Len(Dedup(SortChars(w)))

\* the rearrangements of a list
Rearrangements(l) ==
    {[i \in 1..Len(l) |-> l[p[i]]] : p \in Permutations(1..Len(l))}

\* the sort left out: the list as it is
SortUnstableByKey_NoSort(l) == {l}

\* line 104, sort_unstable_by_key: ascending by key; the order of elements
\* with equal keys is not specified, so every ascending rearrangement is
\* an outcome
SortUnstableByKey(l) ==
    {s \in Rearrangements(l) :
        \A i \in 1..(Len(s) - 1) : EntropyKey(s[i]) <= EntropyKey(s[i + 1])}

\* the ranking without `possible.reverse()`
SortPossibleByEntropy_NoReverse(l) == SortUnstableByKey(l)

\* the ranking with repeated neighbours dropped (a dedup of the list)
SortPossibleByEntropy_Dedup(l) == {Reverse(Dedup(s)) : s \in SortUnstableByKey(l)}

\* lines 103-111: the outcomes of sort_possible_by_entropy(&mut possible)
SortPossibleByEntropy(l) == {Reverse(s) : s \in SortUnstableByKey(l)}

\* words handed to the ranking: distinct-character counts 3, 3, 2, 2, 1
RankPool ==
    { <<"a", "b", "c", "a", "b">>,
      <<"a", "a", "b", "b", "c">>,
      <<"a", "b", "a", "b", "a">>,
      <<"A", "a", "a", "a", "a">>,
      <<"a", "a", "a", "a", "a">> }

(* SpecRank: sort_possible_by_entropy applied to a list, and then to its   *)
(* own result                                                              *)

InitRank ==
    /\ UIStart
    /\ call = "idle"
    /\ arg_word = WordDefault
    /\ arg_w = <<>>
    /\ arg_words \in ListsUpTo(RankPool, MaxList)
    /\ ret = Outcome("None", <<>>)
    /\ ret2 = <<>>

CallSort ==
    /\ call = "idle"
    /\ call' = "sort"
    /\ \E s \in SortPossibleByEntropy(arg_words) : ret' = Outcome("Vec", s)
    /\ UNCHANGED <<arg_word, arg_w, arg_words, ret2>>
    /\ UNCHANGED uiVars

CallSortAgain ==
    /\ call = "sort"
    /\ call' = "sort2"
    /\ ret2' \in SortPossibleByEntropy(ret.val)
    /\ UNCHANGED <<arg_word, arg_w, arg_words, ret>>
    /\ UNCHANGED uiVars

NextRank == CallSort \/ CallSortAgain

SpecRank == InitRank /\ [][NextRank]_vars

\* number of distinct characters of a word
Distinct(w) == Cardinality(Range(w))

Descending(l) == \A i \in 1..Len(l) : \A j \in i..Len(l) : Distinct(l[i]) >= Distinct(l[j])

Count(l, w) == Cardinality({i \in 1..Len(l) : l[i] = w})

SameMultiset(l, m) == Len(l) = Len(m) /\ \A w \in Range(l) \cup Range(m) : Count(l, w) = Count(m, w)

\* the words of l of distinct-character count n, in the order of l
Group(l, n) == LET has(w) == Distinct(w) = n IN SelectSeq(l, has)

\* l ranked by a stable descending sort: groups of equal count, largest
\* count first, each in input order
RECURSIVE StableFrom(_, _)
StableFrom(l, n) == IF n = 0 THEN Group(l, 0) ELSE Group(l, n) \o StableFrom(l, n - 1)

StableDescending(l) == StableFrom(l, Cardinality(Chars))

C8_Permutation ==
    (call \in {"sort", "sort2"}) =>
        /\ SameMultiset(ret.val, arg_words)
        /\ (arg_words = <<>> => ret.val = <<>>)
        /\ (call = "sort2" => SameMultiset(ret2, ret.val))

\* a ranking of a list that holds one word twice and another word once
C8_Witness ==
    /\ call = "sort"
    /\ Len(arg_words) = 3
    /\ Cardinality(Range(arg_words)) = 2
    /\ ret.val # arg_words

----------------------------------------------------------------------------
(* The window's event handlers (main, lines 126-208).  One step is one     *)
(* frame in which one widget reports an event.  `last` records the event   *)
(* of the latest step: the widget, its slot, and the number of characters  *)
(* the constraint fields held before it.                                   *)

\* String::remove_matches(pat) (line 26): drops every match of pat, scanning
\* left to right; an empty pattern matches only empty slices
RECURSIVE RemoveMatches(_, _)
RemoveMatches(s, pat) ==
    IF pat = <<>> \/ Len(s) < Len(pat) THEN s
    ELSE IF SubSeq(s, 1, Len(pat)) = pat
         THEN RemoveMatches(SubSeq(s, Len(pat) + 1, Len(s)), pat)
    ELSE <<Head(s)>> \o RemoveMatches(Tail(s), pat)

\* the files the user may open: an unranked list with ties, and a list
\* with a truncated line
WordFiles ==
    { << <<"a", "b", "a", "b", "a">>,
         <<"a", "b", "c", "a", "b">>,
         <<"a", "a", "b", "b", "c">> >>,
      << <<"A", "a">>,
         <<"a", "a", "b", "b", "c">> >> }

\* texts a wrong-position field or the wrong-letters field may hold
FieldTexts == StringsUpTo(FieldChars, MaxLetters)

\* lines 28 / 43 / 57 with 137-138 / 152-153 / 163-164: the candidates are
\* recomputed from the whole word list and ranked; a panic in Word::filter
\* ends the process before `possible` is assigned
Recompute(wd) ==
    LET r == FilterMapCollect(wd, words)
    IN  IF r.tag = "Panic"
        THEN crashed' = TRUE /\ possible' = possible
        ELSE crashed' = FALSE /\ possible' \in SortPossibleByEntropy(r.val)

Event(op, idx) == [op |-> op, idx |-> idx, before |-> Letters(word)]

\* char_field clearing the letter from its own wrong-position slot only
CharFieldEdit_OwnSlotOnly(idx, s) ==
    /\ ~crashed
    /\ s # word.chars[idx]
    /\ LET wd == [word EXCEPT
                    !.chars[idx] = s,
                    !.wrong_pos[idx] = RemoveMatches(word.wrong_pos[idx], s)]
       IN  /\ Letters(wd) <= MaxLetters
           /\ word' = wd
           /\ Recompute(wd)
    /\ last' = Event("char_field", idx)
    /\ UNCHANGED words
    /\ UNCHANGED fnVars

\* char_field (lines 16-32): known-letter field idx now holds s
CharFieldEdit(idx, s) ==
    /\ ~crashed
    /\ s # word.chars[idx]
    /\ LET wd == [word EXCEPT
                    !.chars[idx] = s,
                    !.wrong_pos = [j \in 1..Slots |-> RemoveMatches(word.wrong_pos[j], s)]]
       IN  /\ Letters(wd) <= MaxLetters
           /\ word' = wd
           /\ Recompute(wd)
    /\ last' = Event("char_field", idx)
    /\ UNCHANGED words
    /\ UNCHANGED fnVars

\* wrong_pos_field (lines 34-47): wrong-position field idx now holds s
WrongPosFieldEdit(idx, s) ==
    /\ ~crashed
    /\ s # word.wrong_pos[idx]
    /\ LET wd == [word EXCEPT !.wrong_pos[idx] = s]
       IN  /\ Letters(wd) <= MaxLetters
           /\ word' = wd
           /\ Recompute(wd)
    /\ last' = Event("wrong_pos_field", idx)
    /\ UNCHANGED words
    /\ UNCHANGED fnVars

\* wrong_field (lines 49-61): the wrong-letters field now holds s
WrongFieldEdit(s) ==
    /\ ~crashed
    /\ s # word.wrong
    /\ LET wd == [word EXCEPT !.wrong = s]
       IN  /\ Letters(wd) <= MaxLetters
           /\ word' = wd
           /\ Recompute(wd)
    /\ last' = Event("wrong_field", 0)
    /\ UNCHANGED words
    /\ UNCHANGED fnVars

\* Reset without the call of sort_possible_by_entropy
Reset_NoSort ==
    /\ ~crashed
    /\ word' = WordDefault
    /\ possible' = words
    /\ last' = Event("reset", 0)
    /\ UNCHANGED <<words, crashed>>
    /\ UNCHANGED fnVars

\* the Reset button (lines 169-173)
Reset ==
    /\ ~crashed
    /\ word' = WordDefault
    /\ possible' \in SortPossibleByEntropy(words)
    /\ last' = Event("reset", 0)
    /\ UNCHANGED <<words, crashed>>
    /\ UNCHANGED fnVars

\* the Open button with a file picked and opened (lines 175-188); a
\* cancelled dialog or a file that cannot be opened changes nothing
OpenFile(lines) ==
    /\ ~crashed
    /\ words' = lines
    /\ possible' = lines
    /\ last' = Event("open", 0)
    /\ UNCHANGED <<word, crashed>>
    /\ UNCHANGED fnVars

Init == UIStart /\ FnIdle

Next ==
    \/ \E idx \in 1..Slots : \E s \in CharSlots : CharFieldEdit(idx, s)
    \/ \E idx \in 1..Slots : \E s \in FieldTexts : WrongPosFieldEdit(idx, s)
    \/ \E s \in FieldTexts : WrongFieldEdit(s)
    \/ Reset
    \/ \E lines \in WordFiles : OpenFile(lines)

Spec == Init /\ [][Next]_vars

\* p is a ranking of l: the same words, ordered by distinct-character count
RankingOf(p, l) == SameMultiset(p, l) /\ Descending(p)

\* C5: after every edit of a constraint field and after every word list
\* opened, the displayed candidates are the words of the current list that
\* match the current constraints, ranked.
C5_DisplayIsFilterThenRank ==
    (~crashed /\ last.op \in {"char_field", "wrong_pos_field", "wrong_field", "open"}) =>
        RankingOf(possible, Selected(word, words))

\* C6: no character is at once the known letter of a slot and one of the
\* wrong-position letters of the same slot.
C6_KnownNeverMisplaced ==
    \A i \in 1..Slots :
        word.chars[i] = <<>> \/ word.chars[i][1] \notin Range(word.wrong_pos[i])

\* C9: Reset leaves all three constraint fields empty, keeps the word list,
\* and makes the candidates a ranking of the whole word list.
C9_ResetClearsAndRanksAll ==
    [][(last'.op = "reset") =>
          /\ word' = WordDefault
          /\ words' = words
          /\ RankingOf(possible', words')]_vars

\* Reset pressed with constraint letters entered and a list loaded whose
\* file order is not ranked
C9_Witness ==
    /\ last.op = "reset"
    /\ last.before > 0
    /\ Len(words) >= 2
    /\ ~Descending(words)
    /\ possible # words

Without(s, c) == LET other(x) == x # c IN SelectSeq(s, other)

\* C10: an edit of known-letter field i that leaves it holding c removes
\* every c from all five wrong-position slots and nothing else from them;
\* an edit that leaves it empty removes nothing; the other known slots, the
\* wrong letters and the word list are unchanged.
C10_CharFieldFrame ==
    [][(last'.op = "char_field") =>
          LET i == last'.idx
              s == word'.chars[i]
          IN  /\ \A j \in 1..Slots :
                    word'.wrong_pos[j] =
                        IF s = <<>> THEN word.wrong_pos[j] ELSE Without(word.wrong_pos[j], s[1])
              /\ \A j \in (1..Slots) \ {i} : word'.chars[j] = word.chars[j]
              /\ word'.wrong = word.wrong
              /\ words' = words]_vars

\* a known-letter edit that left its field holding a letter and the
\* constraint fields holding fewer characters than before: wrong-position
\* letters were removed
C10_Witness ==
    /\ last.op = "char_field"
    /\ word.chars[last.idx] # <<>>
    /\ Letters(word) < last.before

====
